---------------------------- MODULE Spec2Model ----------------------------
(***************************************************************************)
(* The AQI correlation-heatmap script (src/app.py) as a state machine.     *)
(*                                                                         *)
(* The script is straight-line code: read_csv, drop, corr, figure,         *)
(* heatmap, title, show.  Every statement is one action; an exception      *)
(* raised by a statement is uncaught and ends the run (pc = "error").      *)
(*                                                                         *)
(* Representation                                                          *)
(*   file     header: sequence of column names; rows: sequence of rows of  *)
(*            text fields ("" is an empty field, "0".."9" a number,        *)
(*            anything else text).                                         *)
(*   frame    [cols, nrows]: the columns in order, each [name, dtype,      *)
(*            vals], and the row count; a value v is <<v>>, a missing      *)
(*            value (NaN) is <<>>.                                         *)
(*   matrix   [labels, cells]: cells[i][j] is NaN (<<>>) or <<s, p, q>>,   *)
(*            the exact coefficient r with sign s and r*r = p/q in lowest  *)
(*            terms (1.0 is <<1,1,1>>, 0.0 is <<0,0,1>>).                  *)
(*                                                                         *)
(* Library behaviour the statements rely on                                *)
(*   read_csv raises on a missing, unreadable or empty file, skips blank   *)
(*            lines, and infers int64 / float64 / object per column.       *)
(*   drop     raises KeyError when a label is absent (errors='raise').     *)
(*   corr     Pearson over pairwise-complete rows, min_periods 1; raises   *)
(*            ValueError on a non-numeric column (numeric_only=False).     *)
(*   heatmap  raises ValueError on an empty matrix; not-a-number cells     *)
(*            are drawn masked.                                            *)
(***************************************************************************)
EXTENDS Integers, Sequences, FiniteSets

\* ------------------------------------------------------------------ bounds
MaxRows == 3        \* data rows in the input file: 1..MaxRows

\* --------------------------------------------------------------- constants
MinPeriods == 1     \* DataFrame.corr(min_periods=None) means 1

FilePath    == "generated_aqi_data.csv"
DropLabels  == <<"Date", "City">>
IdNames     == {"Date", "City"}
MeasNames   == {"AQI", "PM25"}
TextNames   == {"Station"}
AllNames    == IdNames \cup MeasNames \cup TextNames

DigitStr    == <<"0", "1", "2", "3", "4", "5", "6", "7", "8", "9">>
NumTokens   == {"0", "1"}
MeasTokens  == NumTokens \cup {""}

NaN == <<>>

VARIABLES
    fileState,            \* "missing" | "unreadable" | "present"
    fileHeader,           \* header line of the file
    fileRows,             \* data lines of the file
    pc,                   \* statement about to run, or "done" / "error"
    err,                  \* exception that ended the run, or "none"
    ns,                   \* names bound in the module namespace
    df,                   \* Dataset
    df_numeric,           \* numeric projection
    correlation_matrix,   \* correlation matrix
    events,               \* plotting calls made so far, in order
    plotData              \* matrix handed to sns.heatmap

vars == <<fileState, fileHeader, fileRows, pc, err, ns, df, df_numeric,
          correlation_matrix, events, plotData>>

\* ----------------------------------------------------------------- helpers
Range(s) == {s[i] : i \in DOMAIN s}

RECURSIVE SumOver(_, _)
SumOver(S, f) ==
    IF S = {} THEN 0
    ELSE LET i == CHOOSE k \in S : TRUE
         IN  f[i] + SumOver(S \ {i}, f)

RECURSIVE GCD(_, _)
GCD(a, b) == IF b = 0 THEN a ELSE GCD(b, a % b)

Sign(x) == IF x > 0 THEN 1 ELSE IF x < 0 THEN -1 ELSE 0

EmptyFrame  == [cols |-> <<>>, nrows |-> 0]

\* frame.columns
Columns(frame) == [k \in DOMAIN frame.cols |-> frame.cols[k].name]

EmptyMatrix == [labels |-> <<>>, cells |-> <<>>]

\* ---------------------------------------------------------------- read_csv
IsNumToken(t) == \E k \in DOMAIN DigitStr : DigitStr[k] = t

ParseNum(t) == (CHOOSE k \in DOMAIN DigitStr : DigitStr[k] = t) - 1

\* Blank lines are skipped: with one column an empty field is a blank line.
DataLines(header, rows) ==
    IF Len(header) = 1
    THEN SelectSeq(rows, LAMBDA r : r[1] # "")
    ELSE rows

InferDtype(tokens) ==
    IF tokens = <<>> THEN "object"
    ELSE IF \A i \in DOMAIN tokens : IsNumToken(tokens[i]) THEN "int64"
    ELSE IF \A i \in DOMAIN tokens : IsNumToken(tokens[i]) \/ tokens[i] = ""
         THEN "float64"
         ELSE "object"

ParseColumn(tokens) ==
    IF InferDtype(tokens) = "object"
    THEN [i \in DOMAIN tokens |->
            IF tokens[i] = "" THEN NaN ELSE <<tokens[i]>>]
    ELSE [i \in DOMAIN tokens |->
            IF tokens[i] = "" THEN NaN ELSE <<ParseNum(tokens[i])>>]

\* Mutant: the state of the file is not looked at.
ReadCsvOutcomeNoOpen(state, header) ==
    IF header = <<>> THEN "EmptyDataError" ELSE "ok"

ReadCsvOutcome(state, header) ==
    IF state = "missing" THEN "FileNotFoundError"
    ELSE IF state = "unreadable" THEN "PermissionError"
    ELSE IF header = <<>> THEN "EmptyDataError"
    ELSE "ok"

ReadCsv(header, rows) ==
    LET lines == DataLines(header, rows)
        col(j) == [i \in 1..Len(lines) |-> lines[i][j]]
    IN  [cols  |-> [j \in 1..Len(header) |->
                      [name  |-> header[j],
                       dtype |-> InferDtype(col(j)),
                       vals  |-> ParseColumn(col(j))]],
         nrows |-> Len(lines)]

\* ----------------------------------------------------------------- df.drop
\* Mutant: raises only when none of the labels is found.
DropOutcomeAnyPresent(frame, labels) ==
    IF \E k \in DOMAIN labels : labels[k] \in Range(Columns(frame))
    THEN "ok" ELSE "KeyError"

DropOutcome(frame, labels) ==
    IF \A k \in DOMAIN labels : labels[k] \in Range(Columns(frame))
    THEN "ok" ELSE "KeyError"

\* Mutant: drops the leading columns, as many as there are labels.
DropColumnsByPosition(frame, labels) ==
    [frame EXCEPT !.cols = SubSeq(frame.cols, Len(labels) + 1, Len(frame.cols))]

\* Mutant: also drops the rows that hold a missing value.
DropColumnsDropna(frame, labels) ==
    LET kept == SelectSeq(frame.cols, LAMBDA c : c.name \notin Range(labels))
        full(i) == \A k \in DOMAIN kept : kept[k].vals[i] # NaN
        rows == {i \in 1..frame.nrows : full(i)}
        pick(vals) == SelectSeq([i \in 1..frame.nrows |-> <<i, vals[i]>>],
                                LAMBDA e : e[1] \in rows)
    IN  [cols  |-> [k \in DOMAIN kept |->
                      [kept[k] EXCEPT
                          !.vals = [r \in DOMAIN pick(kept[k].vals) |->
                                       pick(kept[k].vals)[r][2]]]],
         nrows |-> Cardinality(rows)]

DropColumns(frame, labels) ==
    [frame EXCEPT
        !.cols = SelectSeq(frame.cols, LAMBDA c : c.name \notin Range(labels))]

\* ----------------------------------------------------------------- df.corr
CorrOutcome(frame) ==
    IF \E j \in DOMAIN frame.cols : frame.cols[j].dtype = "object"
    THEN "ValueError" ELSE "ok"

\* Mutant: missing values count as 0 and every row is used.
PearsonFillZero(x, y) ==
    LET all  == DOMAIN x
        vx   == [i \in all |-> IF x[i] = NaN THEN 0 ELSE x[i][1]]
        vy   == [i \in all |-> IF y[i] = NaN THEN 0 ELSE y[i][1]]
        nobs == Cardinality(all)
        sx   == SumOver(all, vx)
        sy   == SumOver(all, vy)
        sxx  == SumOver(all, [i \in all |-> vx[i] * vx[i]])
        syy  == SumOver(all, [i \in all |-> vy[i] * vy[i]])
        sxy  == SumOver(all, [i \in all |-> vx[i] * vy[i]])
        covxy == nobs * sxy - sx * sy
        p == covxy * covxy
        q == (nobs * sxx - sx * sx) * (nobs * syy - sy * sy)
        g == GCD(p, q)
    IN  IF q = 0 THEN NaN ELSE <<Sign(covxy), p \div g, q \div g>>

\* Pearson coefficient of two value columns over the rows where both are
\* present (pairwise-complete), as libalgos.nancorr computes it.
Pearson(x, y) ==
    LET both == {i \in DOMAIN x : x[i] # NaN /\ y[i] # NaN}
        nobs == Cardinality(both)
        sx   == SumOver(both, [i \in both |-> x[i][1]])
        sy   == SumOver(both, [i \in both |-> y[i][1]])
        sxx  == SumOver(both, [i \in both |-> x[i][1] * x[i][1]])
        syy  == SumOver(both, [i \in both |-> y[i][1] * y[i][1]])
        sxy  == SumOver(both, [i \in both |-> x[i][1] * y[i][1]])
        ssqdm_x == nobs * sxx - sx * sx
        ssqdm_y == nobs * syy - sy * sy
        covxy   == nobs * sxy - sx * sy
        p == covxy * covxy
        q == ssqdm_x * ssqdm_y
        g == GCD(p, q)
    IN  IF nobs < MinPeriods THEN NaN
        ELSE IF q = 0 THEN NaN
        ELSE <<Sign(covxy), p \div g, q \div g>>

\* Mutant: only the lower triangle is filled in.
CorrLowerOnly(frame) ==
    [labels |-> Columns(frame),
     cells  |-> [i \in DOMAIN frame.cols |->
                   [j \in DOMAIN frame.cols |->
                      IF j <= i
                      THEN Pearson(frame.cols[i].vals, frame.cols[j].vals)
                      ELSE NaN]]]

Corr(frame) ==
    [labels |-> Columns(frame),
     cells  |-> [i \in DOMAIN frame.cols |->
                   [j \in DOMAIN frame.cols |->
                      IF j <= i
                      THEN Pearson(frame.cols[i].vals, frame.cols[j].vals)
                      ELSE Pearson(frame.cols[j].vals, frame.cols[i].vals)]]]

\* ------------------------------------------------------------- sns.heatmap
\* Mutant: a matrix with a not-a-number cell is rejected.
HeatmapOutcomeRejectNaN(matrix) ==
    IF matrix.labels = <<>> THEN "ValueError"
    ELSE IF \E i, j \in DOMAIN matrix.labels : matrix.cells[i][j] = NaN
         THEN "ValueError"
         ELSE "ok"

HeatmapOutcome(matrix) ==
    IF matrix.labels = <<>> THEN "ValueError" ELSE "ok"

\* -------------------------------------------------------------- input files
\* Headers of the input files explored: distinct names in any positions,
\* except that the text column, when present, is the last one and the
\* measurement columns are named in the order AQI, PM25.
Headers ==
    {h \in UNION {[1..n -> AllNames] : n \in 0..Cardinality(AllNames)} :
        /\ \A i, j \in DOMAIN h : i # j => h[i] # h[j]
        /\ \A i \in DOMAIN h : h[i] \in TextNames => i = Len(h)
        /\ \A i, j \in DOMAIN h : h[i] = "AQI" /\ h[j] = "PM25" => i < j}

FileRowsOf(h, n, m) ==
    [i \in 1..n |->
        [j \in DOMAIN h |-> IF h[j] \in MeasNames THEN m[h[j]][i] ELSE "s"]]

Init ==
    /\ pc = "load"
    /\ err = "none"
    /\ ns = {}
    /\ df = EmptyFrame
    /\ df_numeric = EmptyFrame
    /\ correlation_matrix = EmptyMatrix
    /\ events = <<>>
    /\ plotData = EmptyMatrix
    /\ \/ /\ fileState \in {"missing", "unreadable"}
          /\ fileHeader = <<>>
          /\ fileRows = <<>>
       \/ /\ fileState = "present"
          /\ fileHeader = <<>>
          /\ fileRows = <<>>
       \/ /\ fileState = "present"
          /\ \E h \in Headers \ {<<>>}, n \in 1..MaxRows :
               \E m \in [Range(h) \cap MeasNames -> [1..n -> MeasTokens]] :
                  /\ fileHeader = h
                  /\ fileRows = FileRowsOf(h, n, m)

\* ----------------------------------------------------------------- actions
Raise(e) ==
    /\ pc' = "error"
    /\ err' = e

\* Mutant: a failed read is tried again instead of ending the run.
LoadRetry ==
    /\ pc = "load"
    /\ LET out == ReadCsvOutcome(fileState, fileHeader)
       IN  IF out = "ok"
           THEN /\ df' = ReadCsv(fileHeader, fileRows)
                /\ ns' = ns \cup {"df"}
                /\ pc' = "drop"
                /\ err' = err
           ELSE /\ pc' = "load"
                /\ err' = out
                /\ UNCHANGED <<df, ns>>
    /\ UNCHANGED <<fileState, fileHeader, fileRows, df_numeric,
                   correlation_matrix, events, plotData>>

\* df = pd.read_csv(file_path)
Load ==
    /\ pc = "load"
    /\ LET out == ReadCsvOutcome(fileState, fileHeader)
       IN  IF out = "ok"
           THEN /\ df' = ReadCsv(fileHeader, fileRows)
                /\ ns' = ns \cup {"df"}
                /\ pc' = "drop"
                /\ err' = err
           ELSE /\ Raise(out)
                /\ UNCHANGED <<df, ns>>
    /\ UNCHANGED <<fileState, fileHeader, fileRows, df_numeric,
                   correlation_matrix, events, plotData>>

\* df_numeric = df.drop(columns=['Date', 'City'])
Drop ==
    /\ pc = "drop"
    /\ LET out == DropOutcome(df, DropLabels)
       IN  IF out = "ok"
           THEN /\ df_numeric' = DropColumns(df, DropLabels)
                /\ ns' = ns \cup {"df_numeric"}
                /\ pc' = "corr"
                /\ err' = err
           ELSE /\ Raise(out)
                /\ UNCHANGED <<df_numeric, ns>>
    /\ UNCHANGED <<fileState, fileHeader, fileRows, df,
                   correlation_matrix, events, plotData>>

\* correlation_matrix = df_numeric.corr()
Correlate ==
    /\ pc = "corr"
    /\ LET out == CorrOutcome(df_numeric)
       IN  IF out = "ok"
           THEN /\ correlation_matrix' = Corr(df_numeric)
                /\ ns' = ns \cup {"correlation_matrix"}
                /\ pc' = "figure"
                /\ err' = err
           ELSE /\ Raise(out)
                /\ UNCHANGED <<correlation_matrix, ns>>
    /\ UNCHANGED <<fileState, fileHeader, fileRows, df, df_numeric,
                   events, plotData>>

\* plt.figure(figsize=(12, 10))
Figure ==
    /\ pc = "figure"
    /\ events' = Append(events, "figure")
    /\ pc' = "heatmap"
    /\ UNCHANGED <<fileState, fileHeader, fileRows, err, ns, df, df_numeric,
                   correlation_matrix, plotData>>

\* sns.heatmap(correlation_matrix, annot=True, fmt='.2g', cmap='rocket_r')
Heatmap ==
    /\ pc = "heatmap"
    /\ LET out == HeatmapOutcome(correlation_matrix)
       IN  IF out = "ok"
           THEN /\ plotData' = correlation_matrix
                /\ events' = Append(events, "heatmap")
                /\ pc' = "title"
                /\ err' = err
           ELSE /\ Raise(out)
                /\ UNCHANGED <<plotData, events>>
    /\ UNCHANGED <<fileState, fileHeader, fileRows, ns, df, df_numeric,
                   correlation_matrix>>

\* Mutant: the display call comes before the title is set.
TitleAsShow ==
    /\ pc = "title"
    /\ events' = Append(events, "show")
    /\ pc' = "show"
    /\ UNCHANGED <<fileState, fileHeader, fileRows, err, ns, df, df_numeric,
                   correlation_matrix, plotData>>

\* plt.title('Correlation Heatmap of AQI Data', fontsize=16)
Title ==
    /\ pc = "title"
    /\ events' = Append(events, "title")
    /\ pc' = "show"
    /\ UNCHANGED <<fileState, fileHeader, fileRows, err, ns, df, df_numeric,
                   correlation_matrix, plotData>>

\* plt.show()
Show ==
    /\ pc = "show"
    /\ events' = Append(events, "show")
    /\ pc' = "done"
    /\ UNCHANGED <<fileState, fileHeader, fileRows, err, ns, df, df_numeric,
                   correlation_matrix, plotData>>

Next ==
    \/ Load
    \/ Drop
    \/ Correlate
    \/ Figure
    \/ Heatmap
    \/ Title
    \/ Show

Spec == Init /\ [][Next]_vars

\* ------------------------------------------------------------------ claims
FileAccessErrors == {"FileNotFoundError", "PermissionError"}
AllPlotCalls     == <<"figure", "heatmap", "title", "show">>
One              == <<1, 1, 1>>

IsPrefix(s, t) == Len(s) <= Len(t) /\ \A i \in DOMAIN s : s[i] = t[i]

\* C1: a missing or unreadable input file makes the load step raise a
\* file-access error and the run halts with no plotting call made; no
\* plotting call ever happens unless the load step completed before it.
C1_NoPlotWithoutLoad ==
    /\ events # <<>> => "df" \in ns /\ fileState = "present"
    /\ fileState # "present" /\ pc # "load" =>
          /\ pc = "error"
          /\ err \in FileAccessErrors
          /\ ns = {}
          /\ events = <<>>

C1_Witness ==
    /\ fileState = "missing"
    /\ pc = "error"
    /\ err = "FileNotFoundError"
    /\ events = <<>>

\* C2: when Date or City (either one) is absent from the loaded Dataset the
\* drop step raises, the error halts the run, and neither the Correlator
\* nor the Renderer runs.
C2_MissingColumnHalts ==
    "df" \in ns /\ pc # "drop" /\ ~(IdNames \subseteq Range(Columns(df))) =>
        /\ pc = "error"
        /\ err = "KeyError"
        /\ "df_numeric" \notin ns
        /\ "correlation_matrix" \notin ns
        /\ events = <<>>

C2_Witness ==
    /\ pc = "error"
    /\ err = "KeyError"
    /\ "Date" \in Range(Columns(df))
    /\ "City" \notin Range(Columns(df))
    /\ "AQI" \in Range(Columns(df))

\* C3: for a Dataset holding both Date and City, the projection has exactly
\* (column count - 2) columns, wherever the two columns stand, and they are
\* exactly the other columns of the Dataset.
C3_DropLeavesOthers ==
    "df_numeric" \in ns =>
        /\ Len(df_numeric.cols) = Len(df.cols) - 2
        /\ Cardinality(Range(Columns(df_numeric))) = Len(df_numeric.cols)
        /\ Range(Columns(df_numeric)) = Range(Columns(df)) \ IdNames

C3_Witness ==
    /\ "df_numeric" \in ns
    /\ Columns(df) = <<"AQI", "City", "PM25", "Date">>
    /\ Columns(df_numeric) = <<"AQI", "PM25">>

\* C4: the drop step leaves the Dataset untouched (all its columns and rows),
\* no later stage modifies it, and the projection has the Dataset's row count
\* and, column by column, the Dataset's values in the Dataset's row order.
SameRows(frame, proj) ==
    /\ proj.nrows = frame.nrows
    /\ \A k \in DOMAIN proj.cols :
          \E j \in DOMAIN frame.cols : proj.cols[k] = frame.cols[j]

C4_DatasetUntouched ==
    /\ [][("df" \in ns) => (df' = df /\ "df" \in ns')]_vars
    /\ []("df" \in ns => /\ Columns(df) = fileHeader
                         /\ \A j \in DOMAIN df.cols : Len(df.cols[j].vals) = df.nrows)
    /\ []("df_numeric" \in ns => SameRows(df, df_numeric))

C4_Witness ==
    /\ pc = "done"
    /\ Columns(df) = <<"Date", "AQI", "City", "PM25">>
    /\ df.nrows = 3
    /\ df_numeric.nrows = 3
    /\ df_numeric.cols[1].vals = <<NaN, <<0>>, <<1>>>>

\* A column has variance when two of its present values differ.
HasVariance(col) ==
    \E i, j \in DOMAIN col : col[i] # NaN /\ col[j] # NaN /\ col[i] # col[j]

IsSquareOver(matrix, labels) ==
    /\ matrix.labels = labels
    /\ DOMAIN matrix.cells = DOMAIN labels
    /\ \A i \in DOMAIN labels : DOMAIN matrix.cells[i] = DOMAIN labels

IsSymmetric(matrix) ==
    \A i, j \in DOMAIN matrix.labels : matrix.cells[i][j] = matrix.cells[j][i]

\* C5 (as stated): the matrix is N x N over the numeric column names,
\* symmetric, and every diagonal entry is 1.0.
C5_Original ==
    "correlation_matrix" \in ns =>
        /\ IsSquareOver(correlation_matrix, Columns(df_numeric))
        /\ IsSymmetric(correlation_matrix)
        /\ \A i \in DOMAIN correlation_matrix.labels :
              correlation_matrix.cells[i][i] = One

\* C5 (amended): the matrix is N x N over the numeric column names and
\* symmetric; a diagonal entry is 1.0 when its column has two different
\* present values and not-a-number otherwise.
C5_Amended ==
    "correlation_matrix" \in ns =>
        /\ IsSquareOver(correlation_matrix, Columns(df_numeric))
        /\ IsSymmetric(correlation_matrix)
        /\ \A i \in DOMAIN correlation_matrix.labels :
              correlation_matrix.cells[i][i] =
                 IF HasVariance(df_numeric.cols[i].vals) THEN One ELSE NaN

C5_Witness ==
    /\ "correlation_matrix" \in ns
    /\ correlation_matrix.labels = <<"AQI", "PM25">>
    /\ HasVariance(df_numeric.cols[1].vals)
    /\ ~HasVariance(df_numeric.cols[2].vals)
    /\ correlation_matrix.cells[1][1] = One
    /\ correlation_matrix.cells[2][2] = NaN

InRange(cell) ==
    /\ cell[1] \in {-1, 0, 1}
    /\ cell[3] > 0
    /\ cell[2] >= 0
    /\ cell[2] <= cell[3]
    /\ (cell[1] = 0) <=> (cell[2] = 0)

\* The two columns restricted to the rows where both are present.
PairHasVariance(x, y) ==
    LET both == {i \in DOMAIN x : x[i] # NaN /\ y[i] # NaN}
    IN  /\ \E i, j \in both : x[i] # x[j]
        /\ \E i, j \in both : y[i] # y[j]

\* C6 (as stated): every cell is in [-1, 1] or not-a-number, and it is
\* not-a-number only when column i or column j has zero variance.
C6_Original ==
    "correlation_matrix" \in ns =>
        \A i, j \in DOMAIN correlation_matrix.labels :
            IF correlation_matrix.cells[i][j] = NaN
            THEN \/ ~HasVariance(df_numeric.cols[i].vals)
                 \/ ~HasVariance(df_numeric.cols[j].vals)
            ELSE InRange(correlation_matrix.cells[i][j])

\* C6 (amended): every cell is in [-1, 1] or not-a-number, and it is
\* not-a-number exactly when, over the rows where both columns are present,
\* column i or column j has zero variance (fewer than two such rows included).
C6_Amended ==
    "correlation_matrix" \in ns =>
        \A i, j \in DOMAIN correlation_matrix.labels :
            IF PairHasVariance(df_numeric.cols[i].vals, df_numeric.cols[j].vals)
            THEN /\ correlation_matrix.cells[i][j] # NaN
                 /\ InRange(correlation_matrix.cells[i][j])
            ELSE correlation_matrix.cells[i][j] = NaN

C6_Witness ==
    /\ "correlation_matrix" \in ns
    /\ Len(correlation_matrix.labels) = 2
    /\ HasVariance(df_numeric.cols[1].vals)
    /\ HasVariance(df_numeric.cols[2].vals)
    /\ \E i \in DOMAIN df_numeric.cols[1].vals : df_numeric.cols[1].vals[i] = NaN
    /\ correlation_matrix.cells[1][2] = NaN
    /\ correlation_matrix.cells[1][1] = One

\* A column that holds the same number in every row.
IsConstant(col) ==
    /\ col # <<>>
    /\ \A i \in DOMAIN col : col[i] # NaN /\ col[i] = col[1]

HasNaNCell(matrix) ==
    \E i, j \in DOMAIN matrix.labels : matrix.cells[i][j] = NaN

\* C7: a constant numeric column has a not-a-number correlation with every
\* other column; the cells reach the Renderer unchanged and the run goes on
\* to display without raising.
C7_ConstantColumn ==
    "correlation_matrix" \in ns
    /\ (\E c \in DOMAIN df_numeric.cols : IsConstant(df_numeric.cols[c].vals)) =>
        /\ \A c, d \in DOMAIN correlation_matrix.labels :
              IsConstant(df_numeric.cols[c].vals) /\ d # c =>
                 /\ correlation_matrix.cells[c][d] = NaN
                 /\ correlation_matrix.cells[d][c] = NaN
        /\ pc # "error"
        /\ err = "none"
        /\ Len(events) >= 2 => plotData = correlation_matrix /\ HasNaNCell(plotData)
        /\ pc = "done" \/ ENABLED Next

C7_Witness ==
    /\ pc = "done"
    /\ Len(df_numeric.cols) = 2
    /\ IsConstant(df_numeric.cols[1].vals)
    /\ HasVariance(df_numeric.cols[2].vals)
    /\ plotData.cells[1][2] = NaN
    /\ plotData.cells[2][2] = One
    /\ events = AllPlotCalls

Rank(p) ==
    CASE p = "load"    -> 0
      [] p = "drop"    -> 1
      [] p = "corr"    -> 2
      [] p = "figure"  -> 3
      [] p = "heatmap" -> 4
      [] p = "title"   -> 5
      [] p = "show"    -> 6
      [] p = "done"    -> 7
      [] p = "error"   -> 7

Terminal == pc \in {"done", "error"}

\* C9: a run starts with nothing loaded, every step moves it to a strictly
\* later stage (no retry, no loop back), and it can stop only when the plot
\* is displayed or an unhandled error halted it: a next statement is always
\* ready to run until then, so after at most Rank("done") steps the run has
\* reached one of the two outcomes.
C9_Terminates ==
    /\ (pc = "load" /\ ns = {} /\ events = <<>> /\ err = "none")
    /\ [][Rank(pc') > Rank(pc)]_vars
    /\ [](Terminal \/ ENABLED Next)
    /\ [](pc = "done" => events = AllPlotCalls /\ err = "none")
    /\ [](pc = "error" => err # "none" /\ (events # <<>> => events = <<"figure">>))
    /\ [](Rank(pc) \in 0..Rank("done"))

C9_Witness ==
    /\ pc = "error"
    /\ err = "ValueError"
    /\ "correlation_matrix" \in ns
    /\ events = <<"figure">>

Succ(p) ==
    CASE p = "load"    -> "drop"
      [] p = "drop"    -> "corr"
      [] p = "corr"    -> "figure"
      [] p = "figure"  -> "heatmap"
      [] p = "heatmap" -> "title"
      [] p = "title"   -> "show"
      [] p = "show"    -> "done"
      [] OTHER         -> "none"

NsAt(p) ==
    CASE p = "load" -> {}
      [] p = "drop" -> {"df"}
      [] p = "corr" -> {"df", "df_numeric"}
      [] OTHER      -> {"df", "df_numeric", "correlation_matrix"}

EventsAt(p) ==
    CASE p = "heatmap" -> <<"figure">>
      [] p = "title"   -> <<"figure", "heatmap">>
      [] p = "show"    -> <<"figure", "heatmap", "title">>
      [] p = "done"    -> AllPlotCalls
      [] OTHER         -> <<>>

\* C10: the stages run in the order Loader, Projector, Correlator, Renderer,
\* each at most once and only after the previous one succeeded, each on the
\* previous stage's output, which nothing changes afterwards; the display
\* call is the last plotting call.
C10_Sequential ==
    /\ [][pc' \in {Succ(pc), "error"}]_vars
    /\ [][/\ "df" \in ns => df' = df
          /\ "df_numeric" \in ns => df_numeric' = df_numeric
          /\ "correlation_matrix" \in ns =>
                correlation_matrix' = correlation_matrix
          /\ Len(events) >= 2 => plotData' = plotData
          /\ IsPrefix(events, events')]_vars
    /\ [](pc # "error" => ns = NsAt(pc) /\ events = EventsAt(pc))
    /\ [](IsPrefix(events, AllPlotCalls))
    /\ [](ns \in {NsAt("load"), NsAt("drop"), NsAt("corr"), NsAt("done")})
    /\ [](events # <<>> => "correlation_matrix" \in ns)
    /\ [](pc = "drop" => df = ReadCsv(fileHeader, fileRows))
    /\ [](pc = "corr" => df_numeric = DropColumns(df, DropLabels))
    /\ [](pc = "figure" => correlation_matrix = Corr(df_numeric))
    /\ [](pc = "title" => plotData = correlation_matrix)

C10_Witness ==
    /\ pc = "done"
    /\ events = AllPlotCalls
    /\ Len(plotData.labels) = 2
    /\ plotData.cells[1][2] = <<1, 1, 4>>

=============================================================================
